---- MODULE Spec2Model ----
(***************************************************************************)
(* Smart traffic monitor (src/app.py): the upload handler, the single      *)
(* folder of stored uploads, the detector call and the tally / density     *)
(* decision of analyze_traffic.                                            *)
(*                                                                         *)
(* An image is modelled by what the detector returns on it: a sequence of  *)
(* result objects, each a sequence of the class ids of its boxes, or       *)
(* Undecodable when the detector cannot read it.  Strings that the code    *)
(* takes apart (file names) are sequences of one-character strings.        *)
(***************************************************************************)
EXTENDS Integers, Sequences, FiniteSets, TLC

VARIABLES
    detections,   \* analyze_traffic: `results`, what model(image_path) returned
    analysis,     \* analyze_traffic: the dict it returns (NoAnalysis before the call)
    store,        \* the files of app.config['UPLOAD_FOLDER']: file name -> image
    pc,           \* where each server thread is in the request it handles
    request,      \* the request each thread handles
    filename,     \* upload_image: the local `filename` (the name saved under)
    response,     \* what each thread's handler returned
    reqid,        \* the number of the request each thread handles
    admitted,     \* requests received so far
    inferences,   \* every call model(image_path) so far: the request, what it read, what it raised
    latest        \* the last file.save(filepath): its file name and image

vars == <<detections, analysis, store, pc, request, filename, response, reqid,
          admitted, inferences, latest>>

serverVars == <<store, pc, request, filename, response, reqid, admitted,
                inferences, latest>>

\* Python's "not yet assigned": a record, so that it compares with the dict.
NoAnalysis == [unassigned |-> TRUE]

(***************************************************************************)
(* Bounds of the inputs.                                                   *)
(***************************************************************************)
MaxBoxes == 4     \* longest detection list over freely mixed class ids
MaxRun == 17      \* longest run of one vehicle class in a crowded image
MaxRequests == 2  \* requests the server receives in one run

\* COCO class ids the detector may report: 0 person, 9 traffic light, and
\* the four vehicle ids.
ClassIds == {0, 2, 3, 5, 7, 9}

(***************************************************************************)
(* analyze_traffic, lines 20-70.                                           *)
(***************************************************************************)
\* VEHICLE_CLASSES with the id of the bus off by one (6 is COCO's train).
VEHICLE_CLASSES_WrongBus ==
    (2 :> "car") @@ (3 :> "motorcycle") @@ (6 :> "bus") @@ (7 :> "truck")

VEHICLE_CLASSES == (2 :> "car") @@ (3 :> "motorcycle") @@ (5 :> "bus") @@ (7 :> "truck")

\* vehicle_counts = {'car': 0, 'motorcycle': 0, 'bus': 0, 'truck': 0}
ZeroCounts == [car |-> 0, motorcycle |-> 0, bus |-> 0, truck |-> 0]

\* for box in boxes: the inner loop over one result object.
RECURSIVE CountBoxes(_, _)
CountBoxes(boxes, vehicle_counts) ==
    IF boxes = <<>> THEN vehicle_counts
    ELSE LET class_id == Head(boxes)
         IN  CountBoxes(Tail(boxes),
                 IF class_id \in DOMAIN VEHICLE_CLASSES
                 THEN [vehicle_counts EXCEPT ![VEHICLE_CLASSES[class_id]] = @ + 1]
                 ELSE vehicle_counts)

\* The outer loop reading results[0] alone.
CountResults_FirstOnly(results, vehicle_counts) ==
    IF results = <<>> THEN vehicle_counts
    ELSE CountBoxes(Head(results), vehicle_counts)

\* for result in results: the outer loop.
RECURSIVE CountResults(_, _)
CountResults(results, vehicle_counts) ==
    IF results = <<>> THEN vehicle_counts
    ELSE CountResults(Tail(results), CountBoxes(Head(results), vehicle_counts))

\* len(vehicle_counts) where sum(vehicle_counts.values()) is meant.
SumValues_Len(vehicle_counts, keys) == Cardinality(keys)

\* sum(vehicle_counts.values())
RECURSIVE SumValues(_, _)
SumValues(vehicle_counts, keys) ==
    IF keys = {} THEN 0
    ELSE LET k == CHOOSE x \in keys : TRUE
         IN  vehicle_counts[k] + SumValues(vehicle_counts, keys \ {k})

\* The cascade with the second band one too wide.
Density_LateHigh(total_vehicles) ==
    IF total_vehicles <= 5
    THEN [density |-> "Low", density_color |-> "#4CAF50", green_duration |-> 30]
    ELSE IF total_vehicles <= 16
    THEN [density |-> "Medium", density_color |-> "#FF9800", green_duration |-> 45]
    ELSE [density |-> "High", density_color |-> "#F44336", green_duration |-> 60]

\* The cascade with the second comparison turned round.
Density_Flipped(total_vehicles) ==
    IF total_vehicles <= 5
    THEN [density |-> "Low", density_color |-> "#4CAF50", green_duration |-> 30]
    ELSE IF total_vehicles >= 15
    THEN [density |-> "Medium", density_color |-> "#FF9800", green_duration |-> 45]
    ELSE [density |-> "High", density_color |-> "#F44336", green_duration |-> 60]

\* The if / elif / else cascade on total_vehicles.
Density(total_vehicles) ==
    IF total_vehicles <= 5
    THEN [density |-> "Low", density_color |-> "#4CAF50", green_duration |-> 30]
    ELSE IF total_vehicles <= 15
    THEN [density |-> "Medium", density_color |-> "#FF9800", green_duration |-> 45]
    ELSE [density |-> "High", density_color |-> "#F44336", green_duration |-> 60]

\* analyze_traffic after the detector has returned `results`.
analyze_traffic(results) ==
    LET vehicle_counts == CountResults(results, ZeroCounts)
        total_vehicles == SumValues(vehicle_counts, DOMAIN vehicle_counts)
        d == Density(total_vehicles)
    IN  [total_vehicles |-> total_vehicles,
         vehicle_counts |-> vehicle_counts,
         density |-> d.density,
         density_color |-> d.density_color,
         green_duration |-> d.green_duration]

(***************************************************************************)
(* Detector outputs analyze_traffic is run on.                             *)
(***************************************************************************)
Run(c, n) == [i \in 1..n |-> c]

MixedBoxes(n) == UNION {[1..k -> ClassIds] : k \in 0..n}

BoxLists ==
    MixedBoxes(MaxBoxes)
    \cup {Run(c, n) \o t : c \in {2, 5}, n \in 0..MaxRun, t \in MixedBoxes(1)}

DetectorOutputs ==
    {<<>>} \cup {<<b>> : b \in BoxLists} \cup {<<b, <<>>>> : b \in BoxLists}

(***************************************************************************)
(* The web server: upload_image (lines 82-113) and uploaded_file (lines    *)
(* 115-119), run by the threads of app.run.  A thread's accesses to the    *)
(* upload folder (file.save, the detector reading the file) are the steps  *)
(* at which another thread's accesses may fall in between.  file.save is   *)
(* taken to succeed and to write the whole file at once.                   *)
(***************************************************************************)
Threads == {1, 2}

Undecodable == [decodable |-> FALSE, results |-> <<>>]
Decodable(results) == [decodable |-> TRUE, results |-> results]

\* The images clients upload: an unreadable file, four vehicles with two
\* bystanders, eight cars.
Images == {Undecodable,
           Decodable(<<<<2, 0, 2, 3, 9, 7>>>>),
           Decodable(<<Run(2, 8)>>)}

\* What the detector raises: on a file it cannot decode, and on any other
\* failure of the inference.
CannotIdentify == "cannot identify image file"
InferenceError == "inference failed"
NoError == "none"

\* The file names clients send, as sequences of characters.
Filenames == {
    <<>>,
    <<"a">>,
    <<"a", ".">>,
    <<"a", ".", "p", "n", "g">>,
    <<"a", ".", "P", "N", "G">>,
    <<"b", ".", "j", "p", "g">>,
    <<"c", ".", "J", "p", "e", "G">>,
    <<"d", ".", "g", "i", "f">>,
    <<"e", ".", "j", "p", "g", ".", "e", "x", "e">>,
    <<"p", "n", "g", ".", "t", "x", "t">>,
    <<"f", ".", "t", "a", "r", ".", "p", "n", "g">>}

latest_upload == <<"l", "a", "t", "e", "s", "t", "_", "u", "p", "l", "o", "a", "d", ".">>
uploads_url == <<"/", "u", "p", "l", "o", "a", "d", "s", "/">>

\* The names asked of /uploads/<filename>.
DownloadNames == {
    latest_upload \o <<"p", "n", "g">>,
    latest_upload \o <<"j", "p", "g">>,
    latest_upload \o <<"j", "p", "e", "g">>,
    <<"a", ".", "p", "n", "g">>}

UpperCase == <<"A", "B", "C", "D", "E", "F", "G", "H", "I", "J", "K", "L", "M",
               "N", "O", "P", "Q", "R", "S", "T", "U", "V", "W", "X", "Y", "Z">>
LowerCase == <<"a", "b", "c", "d", "e", "f", "g", "h", "i", "j", "k", "l", "m",
               "n", "o", "p", "q", "r", "s", "t", "u", "v", "w", "x", "y", "z">>

\* str.lower()
lower(s) ==
    [i \in 1..Len(s) |->
        IF \E k \in 1..26 : UpperCase[k] = s[i]
        THEN LowerCase[CHOOSE k \in 1..26 : UpperCase[k] = s[i]]
        ELSE s[i]]

\* '.' in s
HasDot(s) == \E i \in 1..Len(s) : s[i] = "."

\* s.rsplit('.', 1)[1]: what follows the last '.'
rsplit1(s) ==
    LET last == CHOOSE i \in 1..Len(s) :
                    s[i] = "." /\ \A j \in (i + 1)..Len(s) : s[j] # "."
    IN  SubSeq(s, last + 1, Len(s))

allowed_extensions == {<<"p", "n", "g">>, <<"j", "p", "g">>, <<"j", "p", "e", "g">>}

\* The condition of line 95 without .lower().
AllowedFile_CaseSensitive(name) == HasDot(name) /\ rsplit1(name) \in allowed_extensions

\* The condition of line 95, without its `not`.
AllowedFile(name) == HasDot(name) /\ lower(rsplit1(name)) \in allowed_extensions

NoRequest == [route |-> "none", has_image |-> FALSE, filename |-> <<>>, image |-> Undecodable]
NoResponse == [status |-> 0, body |-> [none |-> TRUE]]

\* POST /upload, with or without an 'image' part, and GET /uploads/<filename>.
Requests ==
    {[route |-> "upload", has_image |-> FALSE, filename |-> <<>>, image |-> Undecodable]}
    \cup {[route |-> "upload", has_image |-> TRUE, filename |-> f, image |-> img] :
              f \in Filenames, img \in Images}
    \cup {[route |-> "uploads", has_image |-> FALSE, filename |-> f, image |-> Undecodable] :
              f \in DownloadNames}

InitServer ==
    /\ store = <<>>
    /\ pc = [t \in Threads |-> "idle"]
    /\ request = [t \in Threads |-> NoRequest]
    /\ filename = [t \in Threads |-> <<>>]
    /\ response = [t \in Threads |-> NoResponse]
    /\ reqid = [t \in Threads |-> 0]
    /\ admitted = 0
    /\ inferences = <<>>
    /\ latest = [name |-> <<>>, image |-> Undecodable]

Init ==
    /\ detections = <<>>
    /\ analysis = NoAnalysis
    /\ InitServer

\* jsonify({'error': ...}), status
ErrorResponse(status, message) == [status |-> status, body |-> [error |-> message]]

\* upload_image up to the try: the three checks of lines 85-96.  A request
\* that fails one is answered at once; one that passes goes on to file.save.
Validate(t, req) ==
    /\ pc[t] = "idle"
    /\ admitted < MaxRequests
    /\ req.route = "upload"
    /\ admitted' = admitted + 1
    /\ reqid' = [reqid EXCEPT ![t] = admitted + 1]
    /\ request' = [request EXCEPT ![t] = req]
    /\ filename' = [filename EXCEPT ![t] = <<>>]
    /\ IF ~req.has_image
       THEN /\ response' = [response EXCEPT ![t] = ErrorResponse(400, <<"No image uploaded">>)]
            /\ pc' = [pc EXCEPT ![t] = "done"]
       ELSE IF req.filename = <<>>
       THEN /\ response' = [response EXCEPT ![t] = ErrorResponse(400, <<"No file selected">>)]
            /\ pc' = [pc EXCEPT ![t] = "done"]
       ELSE IF ~AllowedFile(req.filename)
       THEN /\ response' = [response EXCEPT ![t] =
                   ErrorResponse(400, <<"Invalid file type. Use JPG or PNG">>)]
            /\ pc' = [pc EXCEPT ![t] = "done"]
       ELSE /\ response' = [response EXCEPT ![t] = NoResponse]
            /\ pc' = [pc EXCEPT ![t] = "save"]
    /\ UNCHANGED <<store, inferences, latest, detections, analysis>>

\* Lines 100-102: filename = 'latest_upload.' + extension; file.save(filepath).
Save(t) ==
    /\ pc[t] = "save"
    /\ LET name == latest_upload \o lower(rsplit1(request[t].filename))
       IN  /\ filename' = [filename EXCEPT ![t] = name]
           /\ store' = (name :> request[t].image) @@ store
           /\ latest' = [name |-> name, image |-> request[t].image]
    /\ pc' = [pc EXCEPT ![t] = "analyze"]
    /\ UNCHANGED <<request, response, reqid, admitted, inferences, detections, analysis>>

\* jsonify(results) after results['image_url'] = f'/uploads/{filename}'
ResultResponse(results, name) ==
    [status |-> 200,
     body |-> [total_vehicles |-> results.total_vehicles,
               vehicle_counts |-> results.vehicle_counts,
               density |-> results.density,
               density_color |-> results.density_color,
               green_duration |-> results.green_duration,
               image_url |-> uploads_url \o name]]

\* An except clause that answers with empty counts beside the error.
FailureResponse_Partial(e) ==
    [status |-> 500,
     body |-> [error |-> <<"Processing failed: ", e>>,
               total_vehicles |-> 0,
               vehicle_counts |-> ZeroCounts]]

\* The except clause of line 112-113.
FailureResponse(e) == ErrorResponse(500, <<"Processing failed: ", e>>)

\* Lines 105-113 with a second inference pass after a failed one.
Analyze_Retry(t, fails) ==
    /\ pc[t] = "analyze"
    /\ LET image == store[filename[t]]
           e == IF ~image.decodable THEN CannotIdentify
                ELSE IF fails THEN InferenceError
                ELSE NoError
           call == [id |-> reqid[t], image |-> image, raised |-> e]
       IN  /\ inferences' = IF e # NoError THEN inferences \o <<call, call>>
                            ELSE Append(inferences, call)
           /\ response' = [response EXCEPT ![t] =
                  IF e # NoError
                  THEN FailureResponse(e)
                  ELSE ResultResponse(analyze_traffic(image.results), filename[t])]
    /\ pc' = [pc EXCEPT ![t] = "done"]
    /\ UNCHANGED <<store, request, filename, reqid, admitted, latest, detections, analysis>>

\* Lines 105-113: analyze_traffic(filepath), whose first step has the
\* detector read the file now stored under filepath, then the response.
\* The detector raises on a file it cannot decode, and may raise on any.
Analyze(t, fails) ==
    /\ pc[t] = "analyze"
    /\ LET image == store[filename[t]]
           e == IF ~image.decodable THEN CannotIdentify
                ELSE IF fails THEN InferenceError
                ELSE NoError
       IN  /\ inferences' = Append(inferences,
                                   [id |-> reqid[t], image |-> image, raised |-> e])
           /\ response' = [response EXCEPT ![t] =
                  IF e # NoError
                  THEN FailureResponse(e)
                  ELSE ResultResponse(analyze_traffic(image.results), filename[t])]
    /\ pc' = [pc EXCEPT ![t] = "done"]
    /\ UNCHANGED <<store, request, filename, reqid, admitted, latest, detections, analysis>>

\* send_from_directory(UPLOAD_FOLDER, filename)
uploaded_file(name) ==
    IF name \in DOMAIN store
    THEN [status |-> 200, body |-> [file |-> store[name]]]
    ELSE ErrorResponse(404, <<"Not Found">>)

\* GET /uploads/<filename>
Download(t, req) ==
    /\ pc[t] = "idle"
    /\ admitted < MaxRequests
    /\ req.route = "uploads"
    /\ admitted' = admitted + 1
    /\ reqid' = [reqid EXCEPT ![t] = admitted + 1]
    /\ request' = [request EXCEPT ![t] = req]
    /\ filename' = [filename EXCEPT ![t] = <<>>]
    /\ response' = [response EXCEPT ![t] = uploaded_file(req.filename)]
    /\ pc' = [pc EXCEPT ![t] = "done"]
    /\ UNCHANGED <<store, inferences, latest, detections, analysis>>

\* The response has gone to the client; the thread is free again.
Return(t) ==
    /\ pc[t] = "done"
    /\ pc' = [pc EXCEPT ![t] = "idle"]
    /\ request' = [request EXCEPT ![t] = NoRequest]
    /\ filename' = [filename EXCEPT ![t] = <<>>]
    /\ response' = [response EXCEPT ![t] = NoResponse]
    /\ reqid' = [reqid EXCEPT ![t] = 0]
    /\ UNCHANGED <<store, admitted, inferences, latest, detections, analysis>>

Next ==
    \/ \E t \in Threads, req \in Requests : Validate(t, req)
    \/ \E t \in Threads : Save(t)
    \/ \E t \in Threads, fails \in BOOLEAN : Analyze(t, fails)
    \/ \E t \in Threads, req \in Requests : Download(t, req)
    \/ \E t \in Threads : Return(t)

Spec == Init /\ [][Next]_vars

(***************************************************************************)
(* analyze_traffic on its own, over the detector outputs above.            *)
(***************************************************************************)
InitAnalyze ==
    /\ detections \in DetectorOutputs
    /\ analysis = NoAnalysis
    /\ InitServer

\* The call of analyze_traffic on the detector's output.
RunAnalysis ==
    /\ analysis = NoAnalysis
    /\ analysis' = analyze_traffic(detections)
    /\ UNCHANGED <<detections, serverVars>>

\* The same detections with boxes i and i+1 of result object k exchanged,
\* analysed again.
SwapBoxes(k, i) ==
    /\ analysis # NoAnalysis
    /\ k \in 1..Len(detections)
    /\ i \in 1..(Len(detections[k]) - 1)
    /\ detections' = [detections EXCEPT
           ![k] = [@ EXCEPT ![i] = detections[k][i + 1], ![i + 1] = detections[k][i]]]
    /\ analysis' = analyze_traffic(detections')
    /\ UNCHANGED serverVars

\* The same detections with the last box of result object k handed to the
\* next result object, analysed again.
MoveBoxRight(k) ==
    /\ analysis # NoAnalysis
    /\ k \in 1..(Len(detections) - 1)
    /\ detections[k] # <<>>
    /\ detections' = [detections EXCEPT
           ![k] = SubSeq(@, 1, Len(@) - 1),
           ![k + 1] = <<detections[k][Len(detections[k])]>> \o @]
    /\ analysis' = analyze_traffic(detections')
    /\ UNCHANGED serverVars

\* ... and the first box of result object k+1 handed back to result object k.
MoveBoxLeft(k) ==
    /\ analysis # NoAnalysis
    /\ k \in 1..(Len(detections) - 1)
    /\ detections[k + 1] # <<>>
    /\ detections' = [detections EXCEPT
           ![k] = Append(@, Head(detections[k + 1])),
           ![k + 1] = Tail(@)]
    /\ analysis' = analyze_traffic(detections')
    /\ UNCHANGED serverVars

NextAnalyze ==
    \/ RunAnalysis
    \/ \E k \in 1..Len(detections) : \E i \in 1..(Len(detections[k]) - 1) : SwapBoxes(k, i)
    \/ \E k \in 1..Len(detections) : MoveBoxRight(k)
    \/ \E k \in 1..Len(detections) : MoveBoxLeft(k)

SpecAnalyze == InitAnalyze /\ [][NextAnalyze]_vars

(***************************************************************************)
(* Properties of analyze_traffic, under SpecAnalyze.                       *)
(***************************************************************************)
Analysed == analysis # NoAnalysis

\* The number of boxes of the detector's output whose class id is in ids.
Occurrences(ids) ==
    Cardinality(UNION {{<<k, i>> : i \in {j \in 1..Len(detections[k]) :
                                               detections[k][j] \in ids}} :
                       k \in 1..Len(detections)})

Low == <<"Low", "#4CAF50", 30>>
Medium == <<"Medium", "#FF9800", 45>>
High == <<"High", "#F44336", 60>>

\* C1: the result carries exactly the (density, density_color,
\* green_duration) triple of the band its total_vehicles falls in: 0..5 Low,
\* 6..15 Medium, 16 and more High; no other triple is produced.
C1_DensityBands ==
    Analysed =>
        LET n == analysis.total_vehicles
            triple == <<analysis.density, analysis.density_color, analysis.green_duration>>
        IN  /\ n \in Nat
            /\ (n <= 5) => (triple = Low)
            /\ (n >= 6 /\ n <= 15) => (triple = Medium)
            /\ (n >= 16) => (triple = High)
            /\ triple \in {Low, Medium, High}

\* Sixteen vehicles, the first total of the High band, have been analysed.
C1_Witness ==
    /\ Analysed
    /\ analysis.total_vehicles = 16
    /\ analysis.density = "High"

\* C2: the count of each label is the number of detections with its class
\* id (car 2, motorcycle 3, bus 5, truck 7); detections of any other class
\* id change no counter and the analysis still returns its counts.
C2_CountsPerClass ==
    Analysed =>
        /\ analysis.vehicle_counts.car = Occurrences({2})
        /\ analysis.vehicle_counts.motorcycle = Occurrences({3})
        /\ analysis.vehicle_counts.bus = Occurrences({5})
        /\ analysis.vehicle_counts.truck = Occurrences({7})
        /\ (Occurrences({2, 3, 5, 7}) = 0) =>
               (analysis.vehicle_counts = ZeroCounts /\ analysis.total_vehicles = 0)

\* A bus among non-vehicles (person, traffic light) has been counted.
C2_Witness ==
    /\ Analysed
    /\ detections = <<<<0, 5, 9>>>>
    /\ analysis.vehicle_counts = [car |-> 0, motorcycle |-> 0, bus |-> 1, truck |-> 0]

\* C5: exchanging two detections, or handing a detection from one result
\* object to the next, leaves the whole analysis (counts, total, tier, color
\* and duration) as it was.
C5_PermutationInvariant == [][Analysed => analysis' = analysis]_vars

\* Detections first reported as <<2, 2, 3, 7>> in one result object have
\* been reordered and spread over two, and analysed.
C5_Witness ==
    /\ Analysed
    /\ detections = <<<<7, 2>>, <<3, 2>>>>
    /\ analysis.total_vehicles = 4

Severity(density) == CASE density = "Low" -> 1 [] density = "Medium" -> 2 [] density = "High" -> 3

\* C6: the tier is one of Low, Medium, High, and no smaller total has a more
\* severe tier or a longer green_duration than the total analysed.
C6_TotalAndMonotonic ==
    Analysed =>
        /\ analysis.density \in {"Low", "Medium", "High"}
        /\ \A m \in 0..analysis.total_vehicles :
               /\ Density(m).density \in {"Low", "Medium", "High"}
               /\ Severity(Density(m).density) <= Severity(analysis.density)
               /\ Density(m).green_duration <= analysis.green_duration

\* A total in the High band, above totals of all three tiers, has been
\* analysed.
C6_Witness ==
    /\ Analysed
    /\ analysis.total_vehicles = 17
    /\ Severity(analysis.density) = 3

\* C7: vehicle_counts has exactly the keys car, motorcycle, bus, truck, each
\* a natural number, and total_vehicles is their sum, which is the number of
\* detections with class id 2, 3, 5 or 7.
C7_CountsShape ==
    Analysed =>
        /\ DOMAIN analysis.vehicle_counts = {"car", "motorcycle", "bus", "truck"}
        /\ \A k \in DOMAIN analysis.vehicle_counts : analysis.vehicle_counts[k] \in Nat
        /\ analysis.total_vehicles =
               analysis.vehicle_counts.car + analysis.vehicle_counts.motorcycle
               + analysis.vehicle_counts.bus + analysis.vehicle_counts.truck
        /\ analysis.total_vehicles = Occurrences({2, 3, 5, 7})

\* Two trucks and a person: the keys of the vehicles not seen are present
\* with count zero.
C7_Witness ==
    /\ Analysed
    /\ detections = <<<<7, 0>>, <<7>>>>
    /\ analysis.vehicle_counts = [car |-> 0, motorcycle |-> 0, bus |-> 0, truck |-> 2]
    /\ analysis.total_vehicles = 2

(***************************************************************************)
(* Properties of the server, under Spec.                                   *)
(***************************************************************************)
\* The calls of the detector made for request number id.
CallsOf(id) == {i \in 1..Len(inferences) : inferences[i].id = id}

AnalysisFields == {"total_vehicles", "vehicle_counts", "density", "density_color",
                   "green_duration", "image_url"}

\* C3: a request during which the detector raised ends in one failure
\* response that carries the cause and none of the fields of a result.
C3_FailureHasNoResult ==
    \A t \in Threads : \A i \in CallsOf(reqid[t]) :
        (pc[t] = "done" /\ inferences[i].raised # NoError) =>
            /\ response[t].status = 500
            /\ DOMAIN response[t].body = {"error"}
            /\ DOMAIN response[t].body \cap AnalysisFields = {}
            /\ response[t].body.error = <<"Processing failed: ", inferences[i].raised>>

\* The detector has raised on an undecodable upload and the request has
\* been answered.
C3_Witness ==
    \E t \in Threads : \E i \in CallsOf(reqid[t]) :
        /\ pc[t] = "done"
        /\ inferences[i].raised = CannotIdentify
        /\ response[t].status = 500

\* C4: the upload folder holds only the most recently saved image: every
\* file in it is the one the last upload wrote.
C4_OnlyLatestStored ==
    \A name \in DOMAIN store : name = latest.name /\ store[name] = latest.image

AcceptedNames == {
    <<"a", ".", "p", "n", "g">>,
    <<"a", ".", "P", "N", "G">>,
    <<"b", ".", "j", "p", "g">>,
    <<"c", ".", "J", "p", "e", "G">>,
    <<"f", ".", "t", "a", "r", ".", "p", "n", "g">>}

ToReject(req) == ~req.has_image \/ req.filename = <<>> \/ req.filename \notin AcceptedNames

\* C9: an upload with no 'image' part, an empty file name or an extension
\* other than png, jpg, jpeg is answered 400 at once, with the upload folder
\* and the detector's calls as they were; every other upload goes on to be
\* saved, and only those are ever saved or analysed.
C9_RejectedHasNoEffect ==
    [][\A t \in Threads :
        (pc[t] = "idle" /\ pc'[t] # "idle" /\ request'[t].route = "upload") =>
            IF ToReject(request'[t])
            THEN /\ pc'[t] = "done"
                 /\ response'[t].status = 400
                 /\ DOMAIN response'[t].body = {"error"}
                 /\ store' = store
                 /\ inferences' = inferences
                 /\ CallsOf(reqid'[t]) = {}
            ELSE pc'[t] = "save"]_vars

\* With an image already stored, an upload named e.jpg.exe has been
\* answered 400.
C9_Witness ==
    \E t \in Threads :
        /\ pc[t] = "done"
        /\ request[t].filename = <<"e", ".", "j", "p", "g", ".", "e", "x", "e">>
        /\ response[t].status = 400
        /\ DOMAIN store # {}

\* The <filename> of an image_url.
UrlName(url) == SubSeq(url, Len(uploads_url) + 1, Len(url))

\* C10: the result returned to an upload is the analysis of the image this
\* request uploaded, and its image_url names a stored file that is this
\* image.
C10_ResultOfOwnImage ==
    \A t \in Threads :
        (pc[t] = "done" /\ request[t].route = "upload" /\ response[t].status = 200) =>
            LET own == analyze_traffic(request[t].image.results)
                body == response[t].body
            IN  /\ request[t].image.decodable
                /\ body.total_vehicles = own.total_vehicles
                /\ body.vehicle_counts = own.vehicle_counts
                /\ body.density = own.density
                /\ body.density_color = own.density_color
                /\ body.green_duration = own.green_duration
                /\ uploaded_file(UrlName(body.image_url)).status = 200
                /\ uploaded_file(UrlName(body.image_url)).body.file = request[t].image

====
